---- MODULE Spec2Model ----
(***************************************************************************)
(* Model of meshtastic-mqtt-forwarder.py: an MQTT bridge holding two       *)
(* paho-mqtt clients (local_client = source, remote_client = sink).        *)
(*                                                                         *)
(* Three execution contexts run the script's code:                         *)
(*   "L"  the network-loop thread of local_client  (loop_start, line 157): *)
(*        on_connect, on_disconnect and on_local_message of local_client;  *)
(*   "R"  the network-loop thread of remote_client (loop_start, line 158): *)
(*        on_connect and on_disconnect of remote_client;                   *)
(*   "M"  the main thread: start-up, the health loop and the shutdown.     *)
(* The script takes no lock, so the contexts interleave between any two    *)
(* accesses of the module globals failure_count and reconnect_delay; each  *)
(* read-modify-write of a global is a load step and a store step.          *)
(*                                                                         *)
(* The paho client is the environment: the outcome of connect, reconnect   *)
(* and publish, the result code of a CONNACK and the loss of a session are *)
(* chosen nondeterministically, and so is the message the source delivers. *)
(* The sink is observed through the arguments of the last publish call.    *)
(***************************************************************************)
EXTENDS Naturals, Sequences, FiniteSets

VARIABLES
    failure_count,    \* global failure_count (line 58)
    reconnect_delay,  \* global reconnect_delay (line 60), seconds
    status,           \* per client: what is_connected() is computed from
    subscribed,       \* per client: it has called subscribe(LOCAL_TOPIC)
    pc,               \* per context: the statement it is about to execute
    inc_loaded,       \* L: failure_count as loaded by `failure_count += 1`
    delay_loaded,     \* per context: reconnect_delay as loaded on line 119
    netUp,            \* environment: brokers reachable and stable throughout
    published,        \* the arguments of the last remote_client.publish() call
    streak,           \* history: failed publishes since the last successful one
    elapsed           \* history: seconds since a reconnect sequence last began

vars == <<failure_count, reconnect_delay, status, subscribed, pc, inc_loaded,
          delay_loaded, netUp, published, streak, elapsed>>

----------------------------------------------------------------------------
(* Program constants *)

failure_threshold == 5

InitialDelay == 5

MaxDelay == 60

(* Bounds of the model *)

\* failed publishes in one streak
MaxStreak == 6

\* clock ticks counted since the last reconnect sequence (saturating)
MaxElapsed == 1

\* characters of an inbound topic after (or instead of) the subscribed prefix
MaxSuffix == 1

\* distinct payloads
MaxPayload == 2

----------------------------------------------------------------------------
Clients == {"local", "remote"}

Threads == {"L", "R", "M"}

LoopThread(c) == IF c = "local" THEN "L" ELSE "R"

Min(a, b) == IF a <= b THEN a ELSE b

is_connected(c) == status[c] = "Connected"

BothConnected == is_connected("local") /\ is_connected("remote")

\* the statements of reconnect_brokers past its guard (lines 111-120)
InSequence(t) ==
    pc[t] \in {"rb_local", "rb_remote", "rb_ok", "rb_exc_load", "rb_exc_store"}

\* where reconnect_brokers returns to: the health loop (line 166) in the
\* main thread, the end of the callback in a loop thread
ReturnPc(t) == IF t = "M" THEN "h_check" ELSE "idle"

----------------------------------------------------------------------------
(* Topics are strings: sequences of characters. A message is a topic and a *)
(* payload, the payload an opaque value.                                   *)

\* line 69: the literal "msh/US/2/e/LongFast/" whose length is cut off the
\* inbound topic; LOCAL_TOPIC (line 44) is this literal followed by "#"
SubscribedPrefix ==
    <<"m", "s", "h", "/", "U", "S", "/", "2", "/", "e", "/",
      "L", "o", "n", "g", "F", "a", "s", "t", "/">>

\* line 51: "egr/home/2/e/LongFast/"
REMOTE_TOPIC_PREFIX ==
    <<"e", "g", "r", "/", "h", "o", "m", "e", "/", "2", "/", "e", "/",
      "L", "o", "n", "g", "F", "a", "s", "t", "/">>

\* the Python slice s[n:]: empty when n >= len(s), it never raises
SliceFrom(s, n) == SubSeq(s, n + 1, Len(s))

\* str.startswith
StartsWith(s, prefix) ==
    /\ Len(s) >= Len(prefix)
    /\ SubSeq(s, 1, Len(prefix)) = prefix

\* lines 69-70 with the slice of line 69 dropped
RemoteTopicWhole(topic) == REMOTE_TOPIC_PREFIX \o topic

\* lines 69-70: remote_topic as on_local_message computes it
RemoteTopic(topic) ==
    REMOTE_TOPIC_PREFIX \o SliceFrom(topic, Len(SubscribedPrefix))

SuffixChars == {"!", "/"}

Suffixes == UNION {[1..n -> SuffixChars] : n \in 0..MaxSuffix}

\* topics that start with the subscribed prefix
PrefixedTopics == {SubscribedPrefix \o s : s \in Suffixes}

\* topics that do not: "msh/US/2/e/LongFast", which the filter of line 44
\* matches as well (the "#" level includes its parent), a topic shorter than
\* the prefix and a topic longer than it
OtherTopics ==
    { SubSeq(SubscribedPrefix, 1, Len(SubscribedPrefix) - 1),
      <<"!">>,
      <<"!">> \o SubscribedPrefix }

Topics == PrefixedTopics \cup OtherTopics

Payloads == 1..MaxPayload

Messages == [topic : Topics, payload : Payloads]

\* one message of the subscription: what the runs that are not about the
\* content of messages deliver
SampleMessage == [topic |-> SubscribedPrefix \o <<"!">>, payload |-> 1]

\* remote_client.publish() has not been called yet
NoMessage == [topic |-> <<>>, payload |-> 0]

Init ==
    /\ failure_count = 0
    /\ reconnect_delay = InitialDelay
    /\ status = [c \in Clients |-> "Disconnected"]
    /\ subscribed = [c \in Clients |-> FALSE]
    /\ pc = [t \in Threads |-> IF t = "M" THEN "connect_local" ELSE "off"]
    /\ inc_loaded = 0
    /\ delay_loaded = [t \in Threads |-> 0]
    /\ netUp = FALSE
    /\ published = NoMessage
    /\ streak = 0
    /\ elapsed = MaxElapsed * InitialDelay

----------------------------------------------------------------------------
(* Start-up: lines 139-158, main thread only *)

\* connect_local(): connect() raising is caught and logged (lines 140-143)
connect_local ==
    /\ pc["M"] = "connect_local"
    /\ \E ok \in BOOLEAN :
         /\ (netUp => ok)
         /\ status' = [status EXCEPT !["local"] =
                          IF ok THEN "Connecting" ELSE "Disconnected"]
    /\ pc' = [pc EXCEPT !["M"] = "connect_remote"]
    /\ UNCHANGED <<failure_count, reconnect_delay, subscribed, inc_loaded,
                   delay_loaded, netUp, published, streak, elapsed>>

\* connect_remote(): connect() raising is caught and logged (lines 146-150)
connect_remote ==
    /\ pc["M"] = "connect_remote"
    /\ \E ok \in BOOLEAN :
         /\ (netUp => ok)
         /\ status' = [status EXCEPT !["remote"] =
                          IF ok THEN "Connecting" ELSE "Disconnected"]
    /\ pc' = [pc EXCEPT !["M"] = "loop_start"]
    /\ UNCHANGED <<failure_count, reconnect_delay, subscribed, inc_loaded,
                   delay_loaded, netUp, published, streak, elapsed>>

\* local_client.loop_start(); remote_client.loop_start(): both callback
\* contexts exist from here on, and main enters the health loop
loop_start ==
    /\ pc["M"] = "loop_start"
    /\ pc' = [t \in Threads |-> IF t = "M" THEN "h_check" ELSE "idle"]
    /\ UNCHANGED <<failure_count, reconnect_delay, status, subscribed,
                   inc_loaded, delay_loaded, netUp, published, streak, elapsed>>

----------------------------------------------------------------------------
(* on_connect, lines 92-97: the one callback both clients are given        *)
(* (lines 129 and 135). The client has marked itself connected before the  *)
(* callback runs when rc = 0; a refused session is closed.                 *)

ConnackCodes == {0, 5}

\* lines 93-95: whether on_connect(client, rc) calls client.subscribe
Subscribes(c, rc) == rc = 0

\* on_connect with the reset of line 116 moved into it
on_connect_resetting(c, rc) ==
    /\ pc[LoopThread(c)] = "idle"
    /\ status[c] = "Connecting"
    /\ (netUp => rc = 0)
    /\ status' = [status EXCEPT ![c] = IF rc = 0 THEN "Connected" ELSE "Disconnected"]
    /\ subscribed' = [subscribed EXCEPT ![c] = @ \/ Subscribes(c, rc)]
    /\ reconnect_delay' = IF rc = 0 THEN InitialDelay ELSE reconnect_delay
    /\ UNCHANGED <<failure_count, pc, inc_loaded, delay_loaded, netUp,
                   published, streak, elapsed>>

on_connect(c, rc) ==
    /\ pc[LoopThread(c)] = "idle"
    /\ status[c] = "Connecting"
    /\ (netUp => rc = 0)
    /\ status' = [status EXCEPT ![c] = IF rc = 0 THEN "Connected" ELSE "Disconnected"]
    /\ subscribed' = [subscribed EXCEPT ![c] = @ \/ Subscribes(c, rc)]
    /\ UNCHANGED <<failure_count, reconnect_delay, pc, inc_loaded,
                   delay_loaded, netUp, published, streak, elapsed>>

----------------------------------------------------------------------------
(* on_disconnect, lines 101-105 *)

DisconnectCodes == {0, 7}

\* line 102 with the test dropped
UnexpectedAlways(rc) == TRUE

\* line 102: whether on_disconnect(rc) goes on to reconnect_brokers()
Unexpected(rc) == rc # 0

\* The session of c is lost and its loop thread runs on_disconnect(rc). With
\* rc != 0 the thread blocks in time.sleep(reconnect_delay) (line 104), the
\* other contexts running meanwhile, and calls reconnect_brokers() when the
\* sleep returns (line 105). How long the sleep lasts is not tracked.
on_disconnect(c, rc) ==
    /\ pc[LoopThread(c)] = "idle"
    /\ status[c] # "Disconnected"
    /\ ~netUp
    /\ status' = [status EXCEPT ![c] = "Disconnected"]
    /\ pc' = [pc EXCEPT ![LoopThread(c)] = IF Unexpected(rc) THEN "disc_sleep" ELSE "idle"]
    /\ UNCHANGED <<failure_count, reconnect_delay, subscribed, inc_loaded,
                   delay_loaded, netUp, published, streak, elapsed>>

----------------------------------------------------------------------------
(* on_local_message, lines 66-88, in the loop thread of local_client *)

\* line 74 publishing the rewritten topic with an empty payload
PublishCallNoPayload(message) ==
    [topic |-> RemoteTopic(message.topic), payload |-> 0]

\* lines 69-74: the one call of remote_client.publish, with the rewritten
\* topic and the payload as received
PublishCall(message) ==
    [topic |-> RemoteTopic(message.topic), payload |-> message.payload]

\* lines 66-82: message is delivered to on_local_message, which publishes it;
\* remote_client.publish() returns MQTT_ERR_SUCCESS (ok), or it returns
\* another code or raises. Success stores failure_count = 0 (line 78); a
\* failure enters the except block, where `failure_count += 1` (line 82)
\* first loads the global.
publish(message, ok) ==
    /\ pc["L"] = "idle"
    /\ is_connected("local")
    /\ published' = PublishCall(message)
    /\ IF ok
         THEN /\ failure_count' = 0
              /\ streak' = 0
              /\ UNCHANGED <<pc, inc_loaded>>
         ELSE /\ streak < MaxStreak
              /\ streak' = streak + 1
              /\ inc_loaded' = failure_count
              /\ pc' = [pc EXCEPT !["L"] = "inc_store"]
              /\ UNCHANGED failure_count
    /\ UNCHANGED <<reconnect_delay, status, subscribed, delay_loaded, netUp,
                   elapsed>>

\* line 82, `failure_count += 1`: the store of the loaded value plus one
increment_store ==
    /\ pc["L"] = "inc_store"
    /\ failure_count' = inc_loaded + 1
    /\ inc_loaded' = 0
    /\ pc' = [pc EXCEPT !["L"] = "threshold"]
    /\ UNCHANGED <<reconnect_delay, status, subscribed, delay_loaded, netUp, published,
                   streak, elapsed>>

\* line 86 with `==` for `>=`
ThresholdReachedOnce == failure_count = failure_threshold

\* line 86 off by one
ThresholdReachedEarly == failure_count >= failure_threshold - 1

\* line 86: the test that escalates to reconnect_brokers()
ThresholdReached == failure_count >= failure_threshold

\* lines 86-88
threshold_check ==
    /\ pc["L"] = "threshold"
    /\ pc' = [pc EXCEPT !["L"] = IF ThresholdReached THEN "rb_guard" ELSE "idle"]
    /\ UNCHANGED <<failure_count, reconnect_delay, status, subscribed,
                   inc_loaded, delay_loaded, netUp, published, streak, elapsed>>

----------------------------------------------------------------------------
(* reconnect_brokers, lines 108-120, in whichever context called it *)

\* line 110 with the guard dropped
NeedsReconnectAlways == TRUE

\* line 110
NeedsReconnect == ~is_connected("local") \/ ~is_connected("remote")

\* a context that has called reconnect_brokers(): from line 88 or line 165
\* ("rb_guard"), or from line 105 once its sleep returns ("disc_sleep")
Called(t) == pc[t] \in {"rb_guard", "disc_sleep"}

\* line 110: the guard; when it fails the function returns having done nothing
guard(t) ==
    /\ Called(t)
    /\ IF NeedsReconnect
         THEN /\ pc' = [pc EXCEPT ![t] = "rb_local"]
              /\ elapsed' = 0
         ELSE /\ pc' = [pc EXCEPT ![t] = ReturnPc(t)]
              /\ UNCHANGED elapsed
    /\ UNCHANGED <<failure_count, reconnect_delay, status, subscribed,
                   inc_loaded, delay_loaded, netUp, published, streak>>

\* line 113 outside the try block: an exception leaves reconnect_brokers
AfterLocalReconnectUncaught(ok) == IF ok THEN "rb_remote" ELSE "raised"

\* the statement that follows local_client.reconnect() (line 113): line 115
\* when it returned, the except block (line 118) when it raised
AfterLocalReconnect(ok) == IF ok THEN "rb_remote" ELSE "rb_exc_load"

\* line 113, local_client.reconnect(): the client drops its socket and opens
\* a new one (a new session awaiting its CONNACK), or raises
reconnect_local(t, ok) ==
    /\ pc[t] = "rb_local"
    /\ (netUp => ok)
    /\ status' = [status EXCEPT !["local"] =
                     IF ok THEN "Connecting" ELSE "Disconnected"]
    /\ pc' = [pc EXCEPT ![t] = AfterLocalReconnect(ok)]
    /\ UNCHANGED <<failure_count, reconnect_delay, subscribed, inc_loaded,
                   delay_loaded, netUp, published, streak, elapsed>>

\* line 115, remote_client.reconnect()
reconnect_remote(t, ok) ==
    /\ pc[t] = "rb_remote"
    /\ (netUp => ok)
    /\ status' = [status EXCEPT !["remote"] =
                     IF ok THEN "Connecting" ELSE "Disconnected"]
    /\ pc' = [pc EXCEPT ![t] = IF ok THEN "rb_ok" ELSE "rb_exc_load"]
    /\ UNCHANGED <<failure_count, reconnect_delay, subscribed, inc_loaded,
                   delay_loaded, netUp, published, streak, elapsed>>

\* lines 116-117: both reconnect() calls returned
reconnect_succeeded(t) ==
    /\ pc[t] = "rb_ok"
    /\ reconnect_delay' = InitialDelay
    /\ failure_count' = 0
    /\ pc' = [pc EXCEPT ![t] = ReturnPc(t)]
    /\ UNCHANGED <<status, subscribed, inc_loaded, delay_loaded, netUp, published,
                   streak, elapsed>>

\* line 119 without the ceiling
BackoffUncapped(d) == d * 2

\* line 119: exponential backoff up to 60 s, from the loaded value
Backoff(d) == Min(d * 2, MaxDelay)

\* line 119, `reconnect_delay = min(reconnect_delay * 2, 60)`: the load
backoff_load(t) ==
    /\ pc[t] = "rb_exc_load"
    /\ delay_loaded' = [delay_loaded EXCEPT ![t] = reconnect_delay]
    /\ pc' = [pc EXCEPT ![t] = "rb_exc_store"]
    /\ UNCHANGED <<failure_count, reconnect_delay, status, subscribed,
                   inc_loaded, netUp, published, streak, elapsed>>

\* line 119 followed by the reset of line 117
backoff_store_resetting(t) ==
    /\ pc[t] = "rb_exc_store"
    /\ reconnect_delay' = Backoff(delay_loaded[t])
    /\ failure_count' = 0
    /\ delay_loaded' = [delay_loaded EXCEPT ![t] = 0]
    /\ pc' = [pc EXCEPT ![t] = ReturnPc(t)]
    /\ UNCHANGED <<status, subscribed, inc_loaded, netUp, published, streak, elapsed>>

\* line 119: the store; the attempt has failed
backoff_store(t) ==
    /\ pc[t] = "rb_exc_store"
    /\ reconnect_delay' = Backoff(delay_loaded[t])
    /\ delay_loaded' = [delay_loaded EXCEPT ![t] = 0]
    /\ pc' = [pc EXCEPT ![t] = ReturnPc(t)]
    /\ UNCHANGED <<failure_count, status, subscribed, inc_loaded, netUp, published,
                   streak, elapsed>>

----------------------------------------------------------------------------
(* The health loop and the shutdown, lines 161-174, main thread *)

\* lines 162-166: one turn of the loop, after time.sleep(0.5) has returned
health_check ==
    /\ pc["M"] = "h_check"
    /\ pc' = [pc EXCEPT !["M"] = IF NeedsReconnect THEN "rb_guard" ELSE "h_check"]
    /\ UNCHANGED <<failure_count, reconnect_delay, status, subscribed,
                   inc_loaded, delay_loaded, netUp, published, streak, elapsed>>

\* the statements inside the try block of lines 161-166, reconnect_brokers
\* called from it included
InHealthLoop == pc["M"] \in {"h_check", "rb_guard"} \/ InSequence("M")

\* lines 167-168: KeyboardInterrupt ends the loop wherever main is in it
keyboard_interrupt ==
    /\ InHealthLoop
    /\ pc' = [pc EXCEPT !["M"] = "stop_local"]
    /\ delay_loaded' = [delay_loaded EXCEPT !["M"] = 0]
    /\ UNCHANGED <<failure_count, reconnect_delay, status, subscribed,
                   inc_loaded, netUp, published, streak, elapsed>>

\* lines 171-172 returning without the loop thread having ended
loop_stop_unjoined(c) ==
    /\ pc["M"] = IF c = "local" THEN "stop_local" ELSE "stop_remote"
    /\ pc' = [pc EXCEPT !["M"] = IF c = "local" THEN "stop_remote" ELSE "disc_local"]
    /\ UNCHANGED <<failure_count, reconnect_delay, status, subscribed,
                   inc_loaded, delay_loaded, netUp, published, streak, elapsed>>

\* lines 171-172: loop_stop() joins the client's loop thread, which ends
\* once the callback it is running has returned
loop_stop(c) ==
    /\ pc["M"] = IF c = "local" THEN "stop_local" ELSE "stop_remote"
    /\ pc[LoopThread(c)] = "idle"
    /\ pc' = [pc EXCEPT !["M"] = IF c = "local" THEN "stop_remote" ELSE "disc_local",
                        ![LoopThread(c)] = "off"]
    /\ UNCHANGED <<failure_count, reconnect_delay, status, subscribed,
                   inc_loaded, delay_loaded, netUp, published, streak, elapsed>>

\* lines 173-174
disconnect(c) ==
    /\ pc["M"] = IF c = "local" THEN "disc_local" ELSE "disc_remote"
    /\ status' = [status EXCEPT ![c] = "Disconnected"]
    /\ pc' = [pc EXCEPT !["M"] = IF c = "local" THEN "disc_remote" ELSE "done"]
    /\ UNCHANGED <<failure_count, reconnect_delay, subscribed, inc_loaded,
                   delay_loaded, netUp, published, streak, elapsed>>

----------------------------------------------------------------------------
\* the clock: InitialDelay seconds pass (every value of reconnect_delay is a
\* multiple of it)
Tick ==
    /\ pc["M"] # "done"
    /\ elapsed < MaxElapsed * InitialDelay
    /\ elapsed' = elapsed + InitialDelay
    /\ UNCHANGED <<failure_count, reconnect_delay, status, subscribed, pc,
                   inc_loaded, delay_loaded, netUp, published, streak>>

Next ==
    \/ connect_local
    \/ connect_remote
    \/ loop_start
    \/ \E c \in Clients, rc \in ConnackCodes : on_connect(c, rc)
    \/ \E c \in Clients, rc \in DisconnectCodes : on_disconnect(c, rc)
    \/ \E ok \in BOOLEAN : publish(SampleMessage, ok)
    \/ increment_store
    \/ threshold_check
    \/ \E t \in Threads : guard(t)
    \/ \E t \in Threads, ok \in BOOLEAN : reconnect_local(t, ok)
    \/ \E t \in Threads, ok \in BOOLEAN : reconnect_remote(t, ok)
    \/ \E t \in Threads : reconnect_succeeded(t)
    \/ \E t \in Threads : backoff_load(t)
    \/ \E t \in Threads : backoff_store(t)
    \/ health_check
    \/ keyboard_interrupt
    \/ \E c \in Clients : loop_stop(c)
    \/ \E c \in Clients : disconnect(c)

Spec == Init /\ [][Next]_vars

\* Spec with the clock running
TimedNext == Next \/ Tick

TimedSpec == Init /\ [][TimedNext]_vars

----------------------------------------------------------------------------
(* The bridge with both brokers reachable and stable from the start and no *)
(* interrupt: connect() and reconnect() return, every CONNACK carries 0    *)
(* and no session is lost. Every context keeps running (the threads are    *)
(* scheduled, time.sleep(0.5) returns), and a client whose new session is  *)
(* pending again and again has a CONNACK delivered again and again.        *)

FairInit ==
    /\ failure_count = 0
    /\ reconnect_delay = InitialDelay
    /\ status = [c \in Clients |-> "Disconnected"]
    /\ subscribed = [c \in Clients |-> FALSE]
    /\ pc = [t \in Threads |-> IF t = "M" THEN "connect_local" ELSE "off"]
    /\ inc_loaded = 0
    /\ delay_loaded = [t \in Threads |-> 0]
    /\ netUp = TRUE
    /\ published = NoMessage
    /\ streak = 0
    /\ elapsed = MaxElapsed * InitialDelay

FairNext ==
    \/ connect_local
    \/ connect_remote
    \/ loop_start
    \/ \E c \in Clients : on_connect(c, 0)
    \/ \E ok \in BOOLEAN : publish(SampleMessage, ok)
    \/ increment_store
    \/ threshold_check
    \/ \E t \in Threads : guard(t)
    \/ \E t \in Threads : reconnect_local(t, TRUE)
    \/ \E t \in Threads : reconnect_remote(t, TRUE)
    \/ \E t \in Threads : reconnect_succeeded(t)
    \/ health_check

Fairness ==
    /\ WF_vars(connect_local)
    /\ WF_vars(connect_remote)
    /\ WF_vars(loop_start)
    /\ WF_vars(health_check)
    /\ WF_vars(increment_store)
    /\ WF_vars(threshold_check)
    /\ \A c \in Clients : SF_vars(on_connect(c, 0))
    /\ \A t \in Threads : WF_vars(guard(t))
    /\ \A t \in Threads : WF_vars(reconnect_local(t, TRUE))
    /\ \A t \in Threads : WF_vars(reconnect_remote(t, TRUE))
    /\ \A t \in Threads : WF_vars(reconnect_succeeded(t))

FairSpec == FairInit /\ [][FairNext]_vars /\ Fairness

----------------------------------------------------------------------------
(* The bridge left running on a silent subscription: no KeyboardInterrupt  *)
(* arrives and no message is delivered (what on_local_message does to      *)
(* failure_count is read nowhere outside it). The brokers may be           *)
(* unreachable and the sessions may drop; the main thread keeps running    *)
(* (it is scheduled, time.sleep(0.5) returns, and every connect() and      *)
(* reconnect() it calls returns or raises).                                *)

RunningNext ==
    \/ connect_local
    \/ connect_remote
    \/ loop_start
    \/ \E c \in Clients, rc \in ConnackCodes : on_connect(c, rc)
    \/ \E c \in Clients, rc \in DisconnectCodes : on_disconnect(c, rc)
    \/ \E t \in Threads : guard(t)
    \/ \E t \in Threads, ok \in BOOLEAN : reconnect_local(t, ok)
    \/ \E t \in Threads, ok \in BOOLEAN : reconnect_remote(t, ok)
    \/ \E t \in Threads : reconnect_succeeded(t)
    \/ \E t \in Threads : backoff_load(t)
    \/ \E t \in Threads : backoff_store(t)
    \/ health_check

MainRuns ==
    /\ WF_vars(connect_local)
    /\ WF_vars(connect_remote)
    /\ WF_vars(loop_start)
    /\ WF_vars(health_check)
    /\ WF_vars(guard("M"))
    /\ WF_vars(\E ok \in BOOLEAN : reconnect_local("M", ok))
    /\ WF_vars(\E ok \in BOOLEAN : reconnect_remote("M", ok))
    /\ WF_vars(reconnect_succeeded("M"))
    /\ WF_vars(backoff_load("M"))
    /\ WF_vars(backoff_store("M"))

RunningSpec == Init /\ [][RunningNext]_vars /\ MainRuns

----------------------------------------------------------------------------
(* The same bridge, brokers reachable and no interrupt, with every message *)
(* of Messages delivered on the subscription.                              *)

ForwardNext ==
    \/ FairNext
    \/ \E message \in Messages, ok \in BOOLEAN : publish(message, ok)

ForwardSpec == FairInit /\ [][ForwardNext]_vars

----------------------------------------------------------------------------
(* Steps of the program, as the properties below name them *)

\* on_local_message calls reconnect_brokers() (line 88)
ForwarderCalls == pc["L"] = "threshold" /\ pc'["L"] = "rb_guard"

\* context t evaluates the guard of reconnect_brokers (line 110)
GuardStep(t) == Called(t) /\ pc'[t] \in {"rb_local", ReturnPc(t)}

\* context t passes the guard and begins the reconnect sequence
BeginsSequence(t) == Called(t) /\ pc'[t] = "rb_local"

\* context t completes a successful recovery attempt (lines 116-117)
AttemptSucceeds(t) == pc[t] = "rb_ok" /\ pc'[t] = ReturnPc(t)

\* context t completes a failed recovery attempt (line 119)
AttemptFails(t) == pc[t] = "rb_exc_store" /\ pc'[t] = ReturnPc(t)

\* a publish succeeds while a streak of failures is open: the one step that
\* ends a streak
PublishSucceeds == streak # 0 /\ streak' = 0

\* the store of `failure_count += 1` (line 82)
IncrementStep == pc["L"] = "inc_store" /\ pc'["L"] = "threshold"

\* KeyboardInterrupt has been received: main is past line 168
Interrupted ==
    pc["M"] \in {"stop_local", "stop_remote", "disc_local", "disc_remote", "done"}

\* both loop_stop() calls have returned (line 172)
LoopsStopped == pc["M"] \in {"disc_local", "disc_remote", "done"}

----------------------------------------------------------------------------
(* C1. As claimed: within one streak of failed publishes on_local_message  *)
(* calls reconnect_brokers only at the 5th failure, not again at the 6th,  *)
(* 7th, ... failure.                                                       *)
C1_RecoveryOnlyAtFifthFailure ==
    [][ForwarderCalls => streak = failure_threshold]_vars

(* C1, amended: a failed publish makes on_local_message call               *)
(* reconnect_brokers exactly when the test of line 86, after the           *)
(* increment, finds failure_count at 5 or more: never before the 5th       *)
(* failure of a streak, and again at every later failure of the streak for *)
(* which the counter is still at 5 or more.                                *)
C1_RecoveryAtEveryFailureFromFifth ==
    [][(pc["L"] = "threshold" /\ pc'["L"] # "threshold")
         => /\ (pc'["L"] = "rb_guard") <=> (failure_count >= failure_threshold)
            /\ (pc'["L"] = "rb_guard") => (streak >= failure_threshold)]_vars

\* the 6th failure of a streak has called reconnect_brokers again, with both
\* connections reporting Connected
C1_SixthFailureRecoversAgain ==
    /\ pc["L"] = "rb_guard"
    /\ streak = failure_threshold + 1
    /\ failure_count = failure_threshold + 1
    /\ BothConnected

(* C2. on_local_message has called reconnect_brokers only when at least 5  *)
(* publishes have failed since the last successful publish.                *)
C2_NoRecoveryBelowThreshold ==
    pc["L"] = "rb_guard" => streak >= failure_threshold

\* four failed publishes in a row have been handled without a recovery call
C2_FourFailuresNoRecovery ==
    /\ pc["L"] = "idle"
    /\ streak = failure_threshold - 1
    /\ failure_count = failure_threshold - 1

(* C3. As claimed: reconnect_delay is min(5 * 2^N, 60) after N failed      *)
(* recovery attempts in a row, and 5 after a successful one; that is, it   *)
(* starts at 5, every failed attempt takes it from d to min(2d, 60) and    *)
(* every successful attempt takes it to 5.                                 *)
C3_BackoffFollowsFormula ==
    [][\A t \in Threads :
         /\ AttemptFails(t) => reconnect_delay' = Min(2 * reconnect_delay, MaxDelay)
         /\ AttemptSucceeds(t) => reconnect_delay' = InitialDelay]_vars

(* C4. As claimed: a reconnect sequence begins only when at least          *)
(* reconnect_delay seconds have passed since the previous one began (the   *)
(* clock saturates: at its top value nothing is known to be too early).    *)
C4_CooldownGate ==
    [][\A t \in Threads :
         BeginsSequence(t) =>
             \/ elapsed >= reconnect_delay
             \/ elapsed = MaxElapsed * InitialDelay]_vars

(* C5. As claimed: with both brokers reachable and stable, whenever a      *)
(* connection is not live both connections are eventually Connected.       *)
C5_HealthBackstop == NeedsReconnect ~> BothConnected

(* C6. As claimed: at most one context at a time is past the guard of      *)
(* reconnect_brokers.                                                      *)
C6_OneAttemptAtATime ==
    \A t1, t2 \in Threads : InSequence(t1) /\ InSequence(t2) => t1 = t2

(* C7. failure_count is 0 after every successful publish and every         *)
(* successful recovery attempt, and no other step lowers it.               *)
C7_ResetOnlyOnSuccess ==
    [][/\ PublishSucceeds => failure_count' = 0
       /\ \A t \in Threads : AttemptSucceeds(t) => failure_count' = 0
       /\ failure_count' < failure_count
            => PublishSucceeds \/ \E t \in Threads : AttemptSucceeds(t)]_vars

\* a successful recovery attempt has reset the counter inside a streak
C7_RecoveryResetInStreak ==
    /\ failure_count = 0
    /\ streak > 0
    /\ pc["L"] = "idle"

(* C8. As claimed: a recovery attempt calls remote_client.reconnect()      *)
(* after local_client.reconnect(), also when the latter has failed.        *)
C8_SinkReconnectAlwaysIssued ==
    [][\A t \in Threads :
         (pc[t] = "rb_local" /\ pc'[t] \notin {"rb_local", "stop_local"})
             => pc'[t] = "rb_remote"]_vars

(* C9. When both connections report Connected the guard of                 *)
(* reconnect_brokers returns at once: no reconnect is issued, and status,  *)
(* reconnect_delay and failure_count stay as they are.                     *)
C9_StaleTriggerNoOp ==
    [][\A t \in Threads :
         (GuardStep(t) /\ BothConnected) =>
             /\ pc'[t] = ReturnPc(t)
             /\ UNCHANGED <<status, reconnect_delay, failure_count>>]_vars

\* reconnect_brokers has been called and both connections report Connected
C9_StaleTriggerPending ==
    \E t \in Threads : pc[t] = "rb_guard" /\ BothConnected

(* C10. As claimed: remote_client, the sink, never calls subscribe.        *)
C10_SinkNeverSubscribes == ~subscribed["remote"]

(* C11. on_disconnect goes on to call reconnect_brokers if and only if its *)
(* result code is not 0: with a non-zero code the thread sleeps and then   *)
(* evaluates the guard of reconnect_brokers; with code 0 the callback      *)
(* returns at once and reconnect_delay and failure_count stay as they are. *)
C11_RecoveryIffUnexpected ==
    [][/\ \A c \in Clients, rc \in DisconnectCodes :
            on_disconnect(c, rc) =>
                /\ (pc'[LoopThread(c)] = "disc_sleep") <=> (rc # 0)
                /\ (rc = 0) => /\ pc' = pc
                               /\ UNCHANGED <<reconnect_delay, failure_count>>
       /\ \A t \in Threads :
            (pc[t] = "disc_sleep" /\ pc'[t] # "disc_sleep") => GuardStep(t)]_vars

\* the sink's session was lost with a non-zero code while the source is
\* Connected: its loop thread is in on_disconnect, about to call
\* reconnect_brokers
C11_UnexpectedDisconnectPending ==
    /\ pc["R"] = "disc_sleep"
    /\ status["remote"] = "Disconnected"
    /\ is_connected("local")

(* C12. For every inbound topic that is the subscribed prefix followed by  *)
(* a suffix, the topic published on the sink is REMOTE_TOPIC_PREFIX        *)
(* followed by that suffix, whatever failure_count, reconnect_delay and    *)
(* the connection states are.                                              *)
C12_TopicRewrite ==
    [][\A message \in Messages, ok \in BOOLEAN :
         (publish(message, ok) /\ StartsWith(message.topic, SubscribedPrefix))
             => \E s \in Suffixes :
                    /\ message.topic = SubscribedPrefix \o s
                    /\ published'.topic = REMOTE_TOPIC_PREFIX \o s]_vars

\* a prefixed topic has been rewritten and published in the middle of a
\* streak of failures
C12_RewrittenWhileFailing ==
    /\ published.topic = REMOTE_TOPIC_PREFIX \o <<"/">>
    /\ failure_count = 3
    /\ pc["L"] = "idle"

(* C13. As claimed: for every inbound topic that does not start with the   *)
(* subscribed prefix the topic published on the sink is                    *)
(* REMOTE_TOPIC_PREFIX followed by the whole inbound topic.                *)
C13_FallbackKeepsWholeTopic ==
    [][\A message \in Messages, ok \in BOOLEAN :
         (publish(message, ok) /\ ~StartsWith(message.topic, SubscribedPrefix))
             => published'.topic = REMOTE_TOPIC_PREFIX \o message.topic]_vars

(* C14. A connect() or reconnect() that raises is caught where it is       *)
(* called: the caller goes on with its next statement. No state is         *)
(* terminal: while the bridge is left running, whenever a connection is    *)
(* down either both connections become Connected or the health loop        *)
(* begins a further recovery attempt, whatever number of attempts has      *)
(* failed before.                                                          *)
C14_RecoveryNeverGivenUp ==
    /\ [][\A t \in Threads :
            /\ (pc[t] = "rb_local" /\ pc'[t] # "rb_local")
                   => pc'[t] \in {"rb_remote", "rb_exc_load"}
            /\ (pc[t] = "rb_remote" /\ pc'[t] # "rb_remote")
                   => pc'[t] \in {"rb_ok", "rb_exc_load"}
            /\ (pc[t] = "rb_exc_store" /\ pc'[t] # "rb_exc_store")
                   => pc'[t] = ReturnPc(t)]_vars
    /\ NeedsReconnect ~> (BothConnected \/ pc["M"] = "rb_local")

\* the health loop begins a recovery attempt with the backoff at its
\* ceiling: at least four attempts have failed in a row
C14_AttemptAfterManyFailures ==
    /\ pc["M"] = "rb_local"
    /\ reconnect_delay = MaxDelay
    /\ NeedsReconnect

(* C15. Every message delivered to on_local_message results in one publish *)
(* call on the sink, with the rewritten topic and the payload as received, *)
(* whether the call succeeds or fails; no other step of the program        *)
(* publishes: not the rest of on_local_message after a failure, not a      *)
(* recovery attempt, not on_connect after it.                              *)
C15_OnePublishPerMessage ==
    [][/\ \A message \in Messages, ok \in BOOLEAN :
            publish(message, ok) =>
                /\ published'.topic = RemoteTopic(message.topic)
                /\ published'.payload = message.payload
       /\ (published' # published) =>
             \E message \in Messages, ok \in BOOLEAN : publish(message, ok)
       /\ (\E t \in Threads : AttemptSucceeds(t)) => published' = published]_vars

\* a publish has failed and been counted, and a recovery attempt has since
\* succeeded and both sessions are up: the sink's last publish call is still
\* the failed one
C15_FailedMessageDropped ==
    /\ published = [topic |-> REMOTE_TOPIC_PREFIX \o <<"!">>, payload |-> 2]
    /\ streak = 1
    /\ failure_count = 0
    /\ pc["L"] = "idle"
    /\ BothConnected

(* C16. As claimed: a recovery attempt that on_disconnect of the sink      *)
(* starts while the source is Connected leaves the source Connected:       *)
(* local_client.reconnect() does nothing to a connected client.            *)
C16_SourceUndisturbed ==
    [][(/\ pc["R"] = "rb_local"
        /\ pc'["R"] # "rb_local"
        /\ is_connected("local")) => status'["local"] = "Connected"]_vars

(* C17. As claimed: once the interrupt has been received no context begins *)
(* a reconnect sequence.                                                   *)
C17_NoRecoveryAfterInterrupt ==
    [][Interrupted => \A t \in Threads : ~BeginsSequence(t)]_vars

(* C17, amended: after the interrupt the main thread leaves the health     *)
(* loop and runs no further recovery step; both loop threads have ended    *)
(* before either connection is disconnected, and from then on no           *)
(* connection is reconnected; when the process exits both connections are  *)
(* Disconnected. (A callback that a loop thread runs before its            *)
(* loop_stop() returns may still begin a reconnect sequence.)              *)
C17_ShutdownOrdering ==
    /\ [](Interrupted => ~InHealthLoop)
    /\ [](LoopsStopped => pc["L"] = "off" /\ pc["R"] = "off")
    /\ [](pc["M"] = "done" => \A c \in Clients : status[c] = "Disconnected")
    /\ [][Interrupted => /\ Interrupted'
                         /\ ~BeginsSequence("M")]_vars
    /\ [][LoopsStopped =>
            \A c \in Clients : status'[c] \in {status[c], "Disconnected"}]_vars

\* the process has exited, after a recovery attempt that failed
C17_ExitedAfterFailedRecovery ==
    /\ pc["M"] = "done"
    /\ reconnect_delay = 2 * InitialDelay
    /\ \A c \in Clients : status[c] = "Disconnected"

(* C18. reconnect_delay changes only in the step that ends a recovery      *)
(* attempt (lines 116 and 119): on_local_message, on_connect,              *)
(* on_disconnect up to its call of reconnect_brokers, connect_local,       *)
(* connect_remote and the health loop leave it as it is.                   *)
C18_DelayChangesOnlyInRecovery ==
    [][(reconnect_delay' # reconnect_delay)
          => \E t \in Threads : AttemptSucceeds(t) \/ AttemptFails(t)]_vars

\* two recovery attempts have failed, no attempt is in progress and the
\* callbacks and the health loop have run since
C18_BackoffRaised ==
    /\ reconnect_delay = 4 * InitialDelay
    /\ \A t \in Threads : ~InSequence(t)
    /\ is_connected("local")
    /\ streak > 0

(* C19. As claimed: no update of failure_count is lost, that is, the       *)
(* counter starts at 0, a successful publish or recovery attempt sets it   *)
(* to 0 (C7) and the handling of every failed publish raises it by exactly *)
(* one from the value it has when the store of line 82 happens.            *)
C19_NoLostUpdate ==
    [][IncrementStep => failure_count' = failure_count + 1]_vars

(* C20. reconnect_delay is always one of 5, 10, 20, 40, 60 and             *)
(* failure_count is always a natural number.                               *)
C20_DelayAndCountInRange ==
    /\ reconnect_delay \in {5, 10, 20, 40, 60}
    /\ failure_count \in Nat

\* the backoff is at its ceiling and the failure counter past the threshold
C20_CeilingReached ==
    /\ reconnect_delay = MaxDelay
    /\ failure_count > failure_threshold

====
